---- MODULE Spec2Model ----
(***************************************************************************)
(* Model of the policy-navigator agent (src/policy-navigator-agent/src):   *)
(* agent.py (the run pipeline and its helpers), upstage_client.py (the     *)
(* three remote calls) and the parts of prompts.py that decide what a      *)
(* prompt contains.                                                        *)
(*                                                                         *)
(* A Python str is a sequence of tokens (one-character strings, or a whole *)
(* word where the code never looks inside the word).  Korean words are     *)
(* written in romanised form.                                              *)
(***************************************************************************)
EXTENDS Integers, Sequences, FiniteSets, TLC

VARIABLES
    \* ---- header completion (agent.py 53-72, 396-403)
    hpc,        \* position: "output", "cleaned", "returned", "ensured", "again"
    hOutput,    \* the text call_solar returned for the final prompt
    hCleaned,   \* _clean_terminal_output(hOutput)
    hReport,    \* _ensure_required_headers(...) : the returned report
    hAgain,     \* _ensure_required_headers(hReport)
    \* ---- JSON recovery (agent.py 191-221)
    jpc,        \* position: "input", "parsed"
    jKind,      \* how the input was built: "fenced", "think_fenced", "other"
    jObject,    \* json.loads of the object that was wrapped (JNull for "other")
    jInput,     \* the raw model text
    jResult     \* _parse_plan_json(jInput)

    ,
    \* ---- profile field merge (agent.py 257-264)
    ppc,        \* position: "ready", "appended"
    pProfile,   \* the profile string
    pPrev,      \* the profile before the last append
    pField,     \* field name of the last append
    pValue,     \* value of the last append
    pCount,     \* appends so far
    \* ---- question filtering (agent.py 149-188)
    fpc,        \* position: "input", "filtered"
    fQuestions, \* the plan's "questions" value
    fSolar,     \* what the filtering chat completion does
    fResult     \* what _filter_questions_llm returns

    ,
    \* ---- policy text of a parsed document (agent.py 75-121)
    dpc,        \* position: "input", "returned"
    dDoc,       \* the parsed document
    dResult     \* _policy_text_from_parsed_doc(dDoc): raise, or the text

    ,
    \* ---- run() (agent.py 309-403)
    pc,             \* position of the control thread
    err,            \* the exception that left run(), or NoError
    pdf_exists,     \* os.path.exists(actual_pdf_path)
    tasks,          \* task name -> "none", "queued", "running", "done"
    future_parse,   \* result slot of the document-parse task
    future_ie,      \* result slot of the information-extraction task
    ie_response,    \* what the information-extraction service did
    parsed_doc,
    ie_extract,     \* None or a str
    policy_text,
    profile,
    profile_for_prompts,
    plan_result,
    questions,      \* the filtered question list
    qidx,           \* index of the next question of the for loop
    answered_fields,\* dict: field name -> answer
    round,          \* 1 before the question loop, 2 after it
    plan_outputs,   \* history: what each plan chat completion did
    plan_prompts,   \* history: the plan prompts built
    final_prompt,   \* the final prompt, once built
    report,         \* the value run() returns
    steps,          \* history: the steps and remote calls made, in order
    last_answer     \* history: the last question answered and what came of it

hdrVars == <<hpc, hOutput, hCleaned, hReport, hAgain>>
jsonVars == <<jpc, jKind, jObject, jInput, jResult>>
profVars == <<ppc, pProfile, pPrev, pField, pValue, pCount>>
filtVars == <<fpc, fQuestions, fSolar, fResult>>
docVars == <<dpc, dDoc, dResult>>

runVars == <<pc, err, pdf_exists, tasks, future_parse, future_ie, ie_response, parsed_doc,
             ie_extract, policy_text, profile, profile_for_prompts, plan_result,
             questions, qidx, answered_fields, round, plan_outputs, plan_prompts,
             final_prompt, report, steps, last_answer>>

vars == <<hdrVars, jsonVars, profVars, filtVars, docVars, runVars>>

(***************************************************************************)
(* Bounds of the model.                                                    *)
(***************************************************************************)
MaxChunks == 3
MaxStringLen == 2
MaxOtherLen == 3
MaxAppends == 3
MaxQuestions == 2

(***************************************************************************)
(* Python str operations on token sequences.                               *)
(***************************************************************************)
IsSpace(c) == c \in {" ", "\n", "\t"}

\* str.strip()
Strip(s) ==
    LET idx == {i \in 1..Len(s) : ~IsSpace(s[i])}
    IN  IF idx = {} THEN <<>>
        ELSE LET lo == CHOOSE i \in idx : \A j \in idx : i <= j
                 hi == CHOOSE i \in idx : \A j \in idx : j <= i
             IN  SubSeq(s, lo, hi)

\* sub in s
Contains(s, sub) ==
    \E i \in 1..(Len(s) - Len(sub) + 1) : SubSeq(s, i, i + Len(sub) - 1) = sub

\* s.find(c) for a one-token c, 1-based; 0 when absent (Python's -1)
Find(s, c) ==
    LET idx == {i \in 1..Len(s) : s[i] = c}
    IN  IF idx = {} THEN 0 ELSE CHOOSE i \in idx : \A j \in idx : i <= j

\* s.rfind(c), 1-based; 0 when absent
RFind(s, c) ==
    LET idx == {i \in 1..Len(s) : s[i] = c}
    IN  IF idx = {} THEN 0 ELSE CHOOSE i \in idx : \A j \in idx : j <= i

\* Body applied to value, with value worked out once
With(value, Body(_)) == CHOOSE y \in { Body(w) : w \in {value} } : TRUE

RECURSIVE Concat(_)
\* "".join(parts)
Concat(parts) ==
    IF parts = <<>> THEN <<>> ELSE Head(parts) \o Concat(Tail(parts))

RECURSIVE Join(_, _)
\* sep.join(parts)
Join(sep, parts) ==
    IF parts = <<>> THEN <<>>
    ELSE IF Len(parts) = 1 THEN parts[1]
    ELSE parts[1] \o sep \o Join(sep, Tail(parts))

(***************************************************************************)
(* JSON values (what json.loads returns), as tagged records.  A dict is a  *)
(* sequence of key/value pairs in insertion order; None is JNull.          *)
(***************************************************************************)
DQ == "\""

JStr(s) == [t |-> "str", v |-> s]
JNum(d) == [t |-> "num", v |-> <<d>>]
JNull == [t |-> "null", v |-> <<>>]
JArr(items) == [t |-> "arr", v |-> items]
JObj(pairs) == [t |-> "obj", v |-> pairs]

IsStr(x) == x.t = "str"
IsDict(x) == x.t = "obj"
IsList(x) == x.t = "arr"

\* Python truthiness: "", 0, None, [] and {} are false
Truthy(x) ==
    IF x.t = "null" THEN FALSE
    ELSE IF x.t = "num" THEN x.v # <<"0">>
    ELSE x.v # <<>>

\* d[k] = val on a dict: an existing key keeps its place
DictSet(pairs, k, val) ==
    IF \E i \in 1..Len(pairs) : pairs[i].k = k
    THEN [i \in 1..Len(pairs) |->
            IF pairs[i].k = k THEN [k |-> k, val |-> val] ELSE pairs[i]]
    ELSE Append(pairs, [k |-> k, val |-> val])

HasKey(d, k) == \E i \in 1..Len(d.v) : d.v[i].k = k

\* d.get(k, default)
DictGet(d, k, default) ==
    IF HasKey(d, k)
    THEN d.v[CHOOSE i \in 1..Len(d.v) : d.v[i].k = k].val
    ELSE default

(***************************************************************************)
(* json.loads on a token sequence: objects, arrays, strings, one-token     *)
(* numbers and null, with JSON white space between tokens.  A string is    *)
(* DQ ... DQ and, as in Python's strict mode, holds no control character;  *)
(* an escape sequence is one token.                                        *)
(***************************************************************************)
\* the escape sequence json.dumps writes for a token, and the token itself otherwise
EscapeToken(c) ==
    IF c = "\n" THEN "\\n" ELSE IF c = "\t" THEN "\\t" ELSE IF c = DQ THEN "\\\"" ELSE c

\* what json.loads reads an escape sequence as
UnescapeToken(c) ==
    IF c = "\\n" THEN "\n" ELSE IF c = "\\t" THEN "\t" ELSE IF c = "\\\"" THEN DQ ELSE c

Digits == {"0", "1", "2", "5"}

NoParse == [ok |-> FALSE, val |-> JNull, pos |-> 0]
Parsed(val, pos) == [ok |-> TRUE, val |-> val, pos |-> pos]

At(s, i) == IF i >= 1 /\ i <= Len(s) THEN s[i] ELSE "<eof>"

RECURSIVE SkipWs(_, _)
SkipWs(s, i) == IF IsSpace(At(s, i)) THEN SkipWs(s, i + 1) ELSE i

\* the closing quote of the string that opens at i, or 0
RECURSIVE CloseQuote(_, _)
CloseQuote(s, j) ==
    IF j > Len(s) THEN 0
    ELSE IF s[j] = DQ THEN j
    ELSE IF s[j] \in {"\n", "\t"} THEN 0
    ELSE CloseQuote(s, j + 1)

ParseString(s, i) ==
    IF At(s, i) # DQ THEN NoParse
    ELSE With(CloseQuote(s, i + 1), LAMBDA j :
            IF j = 0 THEN NoParse
            ELSE Parsed(JStr([n \in 1..(j - i - 1) |-> UnescapeToken(s[i + n])]), j + 1))

RECURSIVE ParseValue(_, _)
RECURSIVE ParseMembers(_, _, _)
RECURSIVE ParseElements(_, _, _)

ParseValue(s, i) ==
    With(At(s, i), LAMBDA c :
        IF c = DQ THEN ParseString(s, i)
        ELSE IF c \in Digits THEN Parsed(JNum(c), i + 1)
        ELSE IF c = "null" THEN Parsed(JNull, i + 1)
        ELSE IF c = "{" THEN
            With(SkipWs(s, i + 1), LAMBDA k :
                IF At(s, k) = "}" THEN Parsed(JObj(<<>>), k + 1)
                ELSE ParseMembers(s, k, <<>>))
        ELSE IF c = "[" THEN
            With(SkipWs(s, i + 1), LAMBDA k :
                IF At(s, k) = "]" THEN Parsed(JArr(<<>>), k + 1)
                ELSE ParseElements(s, k, <<>>))
        ELSE NoParse)

\* "key": value pairs from position k on, up to the closing brace
ParseMembers(s, k, acc) ==
    With(ParseString(s, k), LAMBDA key :
        IF ~key.ok \/ At(s, SkipWs(s, key.pos)) # ":" THEN NoParse
        ELSE With(ParseValue(s, SkipWs(s, SkipWs(s, key.pos) + 1)), LAMBDA val :
                IF ~val.ok THEN NoParse
                ELSE With(<<SkipWs(s, val.pos), DictSet(acc, key.val.v, val.val)>>,
                          LAMBDA ea :
                        IF At(s, ea[1]) = "}" THEN Parsed(JObj(ea[2]), ea[1] + 1)
                        ELSE IF At(s, ea[1]) = ","
                        THEN ParseMembers(s, SkipWs(s, ea[1] + 1), ea[2])
                        ELSE NoParse)))

\* values from position k on, up to the closing bracket
ParseElements(s, k, acc) ==
    With(ParseValue(s, k), LAMBDA val :
        IF ~val.ok THEN NoParse
        ELSE With(<<SkipWs(s, val.pos), Append(acc, val.val)>>, LAMBDA ea :
                IF At(s, ea[1]) = "]" THEN Parsed(JArr(ea[2]), ea[1] + 1)
                ELSE IF At(s, ea[1]) = ","
                THEN ParseElements(s, SkipWs(s, ea[1] + 1), ea[2])
                ELSE NoParse))

\* json.loads(s): [ok |-> FALSE] stands for JSONDecodeError
json_loads(s) ==
    With(ParseValue(s, SkipWs(s, 1)), LAMBDA r :
        IF r.ok /\ SkipWs(s, r.pos) = Len(s) + 1 THEN r ELSE NoParse)

(***************************************************************************)
(* json.dumps(x, ensure_ascii=False): ", " and ": " separators.            *)
(***************************************************************************)
RECURSIVE json_dumps(_)
RECURSIVE DumpItems(_)
RECURSIVE DumpPairs(_)

\* a str between double quotes, its control characters and quotes escaped
DumpString(w) == <<DQ>> \o [n \in 1..Len(w) |-> EscapeToken(w[n])] \o <<DQ>>

json_dumps(x) ==
    IF x.t = "str" THEN DumpString(x.v)
    ELSE IF x.t = "num" THEN x.v
    ELSE IF x.t = "null" THEN <<"null">>
    ELSE IF x.t = "arr" THEN <<"[">> \o Join(<<",", " ">>, DumpItems(x.v)) \o <<"]">>
    ELSE <<"{">> \o Join(<<",", " ">>, DumpPairs(x.v)) \o <<"}">>

DumpItems(items) ==
    IF items = <<>> THEN <<>>
    ELSE <<json_dumps(Head(items))>> \o DumpItems(Tail(items))

DumpPairs(pairs) ==
    IF pairs = <<>> THEN <<>>
    ELSE << DumpString(Head(pairs).k) \o <<":", " ">> \o json_dumps(Head(pairs).val) >>
         \o DumpPairs(Tail(pairs))

(***************************************************************************)
(* repr(x) and str(x) of a Python value: a str inside a list or dict is    *)
(* written between single quotes.                                          *)
(***************************************************************************)
RECURSIVE PyRepr(_)
RECURSIVE ReprItems(_)
RECURSIVE ReprPairs(_)

PyRepr(x) ==
    IF x.t = "str" THEN <<"'">> \o x.v \o <<"'">>
    ELSE IF x.t = "num" THEN x.v
    ELSE IF x.t = "null" THEN <<"None">>
    ELSE IF x.t = "arr" THEN <<"[">> \o Join(<<",", " ">>, ReprItems(x.v)) \o <<"]">>
    ELSE <<"{">> \o Join(<<",", " ">>, ReprPairs(x.v)) \o <<"}">>

ReprItems(items) ==
    IF items = <<>> THEN <<>>
    ELSE <<PyRepr(Head(items))>> \o ReprItems(Tail(items))

ReprPairs(pairs) ==
    IF pairs = <<>> THEN <<>>
    ELSE << <<"'">> \o Head(pairs).k \o <<"'", ":", " ">> \o PyRepr(Head(pairs).val) >>
         \o ReprPairs(Tail(pairs))

\* str(x) inside an f-string
PyStr(x) == IF x.t = "str" THEN x.v ELSE PyRepr(x)


(***************************************************************************)
(* agent.py 191-221: _parse_plan_json.  "<fence>" is the three-backtick    *)
(* code fence, "<think>" and "</think>" the reasoning markers.             *)
(***************************************************************************)
\* first index >= i that holds token c, or 0
RECURSIVE FindFrom(_, _, _)
FindFrom(s, c, i) ==
    IF i > Len(s) THEN 0 ELSE IF s[i] = c THEN i ELSE FindFrom(s, c, i + 1)

\* line 202: re.sub(r"<think>[\s\S]*?</think>", "", text)
RECURSIVE RemoveThinkFrom(_, _)
RemoveThinkFrom(s, i) ==
    IF i > Len(s) THEN <<>>
    ELSE LET j == IF s[i] = "<think>" THEN FindFrom(s, "</think>", i + 1) ELSE 0
         IN  IF j # 0 THEN RemoveThinkFrom(s, j + 1)
             ELSE <<s[i]>> \o RemoveThinkFrom(s, i + 1)

RemoveThink(s) == RemoveThinkFrom(s, 1)

\* line 205: re.search of fence (json)? \s* (.*?) fence; group(1), or no match
FenceSearch(s) ==
    With(FindFrom(s, "<fence>", 1), LAMBDA open :
    With(IF open = 0 THEN 0 ELSE FindFrom(s, "<fence>", open + 1), LAMBDA close :
        IF close = 0 THEN [found |-> FALSE, inner |-> <<>>]
        ELSE [ found |-> TRUE,
               inner |-> SubSeq(s, SkipWs(s, IF At(s, open + 1) = "json"
                                             THEN open + 2 ELSE open + 1),
                                close - 1) ]))

\* lines 213-221: the span from the first "{" to the last "}"
BraceSpanObject(text) ==
    With(<<Find(text, "{"), RFind(text, "}")>>, LAMBDA span :
        IF span[1] = 0 \/ span[2] = 0 \/ span[2] <= span[1] THEN JNull
        ELSE With(json_loads(SubSeq(text, span[1], span[2])), LAMBDA r :
                IF r.ok /\ IsDict(r.val) THEN r.val ELSE JNull))

\* lines 199-203: strip, then drop the reasoning blocks
WithoutReasoning(raw_text) ==
    With(Strip(raw_text), LAMBDA t :
        IF Contains(t, <<"</think>">>) THEN Strip(RemoveThink(t)) ELSE t)

\* lines 205-207: the inside of the first code block, if there is one
InsideCodeBlock(t) ==
    With(FenceSearch(t), LAMBDA code_block :
        IF code_block.found THEN Strip(code_block.inner) ELSE t)

_parse_plan_json(raw_text) ==
    IF Strip(raw_text) = <<>> THEN JNull
    ELSE With(InsideCodeBlock(WithoutReasoning(raw_text)), LAMBDA text :
            With(json_loads(text), LAMBDA r :
                IF r.ok THEN (IF IsDict(r.val) THEN r.val ELSE JNull)
                ELSE BraceSpanObject(text)))

(***************************************************************************)
(* Inputs of the JSON recovery model.                                      *)
(***************************************************************************)
Quoted(w) == <<DQ>> \o w \o <<DQ>>

RECURSIVE SeqsUpTo(_, _)
\* all sequences over alphabet of length at most n
SeqsUpTo(alphabet, n) ==
    IF n = 0 THEN { <<>> }
    ELSE LET shorter == SeqsUpTo(alphabet, n - 1)
         IN  shorter \cup { Append(w, c) : w \in shorter, c \in alphabet }

\* what a string value of the wrapped object may hold
StringAlphabet == {"x", "{", "}", "<fence>", "<think>", "</think>"}

\* well-formed JSON object texts
ObjectTexts ==
    { <<"{">> \o Quoted(<<"a">>) \o <<":", " ">> \o Quoted(w) \o <<"}">> :
        w \in SeqsUpTo(StringAlphabet, MaxStringLen) }
    \cup { <<"{", "}">>,
           <<"{", "\n", " ">> \o Quoted(<<"questions">>) \o <<":", " ", "[", "]", "\n", "}">>,
           <<"{">> \o Quoted(<<"questions">>) \o <<":", "[", "{">> \o Quoted(<<"field">>)
               \o <<":">> \o Quoted(<<"a">>) \o <<",">> \o Quoted(<<"question">>)
               \o <<":">> \o Quoted(<<"x">>) \o <<"}", "]", "}">> }

\* line-by-line: fence, optional language tag, the object, fence
Fenced(o) ==
    { <<"<fence>", "json", "\n">> \o o \o <<"\n", "<fence>">>,
      <<"<fence>">> \o o \o <<"<fence>">>,
      <<"x", " ", "<fence>", "json", " ">> \o o \o <<"<fence>", "\n", "x">> }

ReasoningBlocks ==
    { <<"<think>", "x", "</think>", "\n">>,
      <<"<think>", "{", "x", "}", "\n", "<fence>", "</think>">> }

\* texts that are not built around an object: short token soup, arrays, blanks
OtherAlphabet == {"{", "}", "[", "]", "1", DQ, ":", " "}

OtherTexts ==
    SeqsUpTo(OtherAlphabet, MaxOtherLen)
    \cup { <<"[", "{">> \o Quoted(<<"a">>) \o <<":">> \o Quoted(<<"x">>) \o <<"}", "]">>,
           <<"<fence>", "json", "\n", "[", "{", "}", "]", "\n", "<fence>">>,
           <<"x", "x">>, <<"\n">> }

JsonInputs ==
    /\ jpc = "input"
    /\ jResult = JNull
    /\ \/ \E o \in ObjectTexts : \E f \in Fenced(o) :
             /\ jKind = "fenced"
             /\ jObject = json_loads(o).val
             /\ jInput = f
       \/ \E o \in ObjectTexts : \E f \in Fenced(o) : \E r \in ReasoningBlocks :
             /\ jKind = "think_fenced"
             /\ jObject = json_loads(o).val
             /\ jInput = r \o f
       \/ \E g \in OtherTexts :
             /\ jKind = "other"
             /\ jObject = JNull
             /\ jInput = g

ParsePlanJson ==
    /\ jpc = "input"
    /\ jResult' = _parse_plan_json(jInput)
    /\ jpc' = "parsed"
    /\ UNCHANGED <<jKind, jObject, jInput>>
    /\ UNCHANGED <<hdrVars, profVars, filtVars, runVars, docVars>>


(***************************************************************************)
(* upstage_client.py 23-51: call_solar either raises (transport, auth) or  *)
(* returns the completion's text ("" when the content is absent).          *)
(***************************************************************************)
SolarRaise == [raise |-> TRUE, text |-> <<>>]
SolarText(t) == [raise |-> FALSE, text |-> t]

(***************************************************************************)
(* The try / except JSONDecodeError / bracket-span pattern of agent.py     *)
(* 133-139, 172-178 and 286-292.  raised: the second json.loads raised,    *)
(* which the enclosing "except Exception" catches.                         *)
(***************************************************************************)
LoadsOrSpan(output, open, close) ==
    With(json_loads(output), LAMBDA r :
        IF r.ok THEN [raised |-> FALSE, parsed |-> r.val]
        ELSE With(<<Find(output, open), RFind(output, close)>>, LAMBDA span :
                IF span[1] # 0 /\ span[2] # 0 /\ span[2] > span[1]
                THEN With(json_loads(SubSeq(output, span[1], span[2])), LAMBDA r2 :
                        IF r2.ok THEN [raised |-> FALSE, parsed |-> r2.val]
                        ELSE [raised |-> TRUE, parsed |-> JNull])
                ELSE [raised |-> FALSE, parsed |-> JNull]))

(***************************************************************************)
(* agent.py 257-264: _append_profile_field                                 *)
(***************************************************************************)
_append_profile_field(prof, field_name, value) ==
    LET updated_profile == Strip(prof)
    IN  IF Contains(updated_profile, field_name \o <<":">>) THEN updated_profile
        ELSE IF updated_profile # <<>>
        THEN updated_profile \o <<"/", " ">> \o field_name \o <<":", " ">> \o value
        ELSE field_name \o <<":", " ">> \o value

(***************************************************************************)
(* agent.py 267-306: _update_profile_from_message_llm, given what the      *)
(* extraction chat completion does.  field_name is a str ("" when absent). *)
(***************************************************************************)
\* lines 296-298: the loop over parsed.items()
RECURSIVE AppendPairs(_, _)
AppendPairs(updated, pairs) ==
    IF pairs = <<>> THEN updated
    ELSE LET fn == Head(pairs).k
             value == Head(pairs).val
             next == IF fn # <<>> /\ Truthy(value) /\ IsStr(value)
                     THEN _append_profile_field(updated, fn, Strip(value.v))
                     ELSE updated
         IN  AppendPairs(next, Tail(pairs))

\* lines 300-302 and 303-306: the answer is appended under the asked field
ProfileFallback(prof, user_message, field_name) ==
    IF field_name # <<>>
    THEN _append_profile_field(Strip(prof), field_name, Strip(user_message))
    ELSE Strip(prof)

_update_profile_from_message_llm(prof, user_message, field_name, solar) ==
    IF Strip(user_message) = <<>> THEN Strip(prof)
    ELSE IF solar.raise THEN ProfileFallback(prof, user_message, field_name)
    ELSE With(LoadsOrSpan(solar.text, "{", "}"), LAMBDA r :
            IF ~r.raised /\ IsDict(r.parsed) /\ Truthy(r.parsed)
            THEN AppendPairs(Strip(prof), r.parsed.v)
            ELSE ProfileFallback(prof, user_message, field_name))

(***************************************************************************)
(* agent.py 149-188: _filter_questions_llm                                 *)
(***************************************************************************)
\* line 151: list(questions or []); TypeError for a true value that is not iterable
ListOf(qs) ==
    IF ~Truthy(qs) THEN [raise |-> FALSE, val |-> <<>>]
    ELSE IF qs.t = "arr" THEN [raise |-> FALSE, val |-> qs.v]
    ELSE IF qs.t = "str"
    THEN [raise |-> FALSE, val |-> [i \in 1..Len(qs.v) |-> JStr(<<qs.v[i]>>)]]
    ELSE IF qs.t = "obj"
    THEN [raise |-> FALSE, val |-> [i \in 1..Len(qs.v) |-> JStr(qs.v[i].k)]]
    ELSE [raise |-> TRUE, val |-> <<>>]

\* item.get("question") or item.get("field")
QuestionOrField(item) ==
    LET q == DictGet(item, <<"question">>, JNull)
    IN  IF Truthy(q) THEN q ELSE DictGet(item, <<"field">>, JNull)

\* lines 156-161
RECURSIVE NormalizeItems(_)
NormalizeItems(raw) ==
    IF raw = <<>> THEN <<>>
    ELSE (IF IsDict(Head(raw)) /\ Truthy(QuestionOrField(Head(raw))) THEN <<Head(raw)>>
          ELSE IF IsStr(Head(raw)) /\ Strip(Head(raw).v) # <<>>
          THEN << JObj(<< [k |-> <<"field">>, val |-> JNull],
                          [k |-> <<"question">>, val |-> JStr(Strip(Head(raw).v))] >>) >>
          ELSE <<>>)
         \o NormalizeItems(Tail(raw))

\* line 181
KeepQuestionItems(parsed) ==
    SelectSeq(parsed, LAMBDA x : IsDict(x) /\ Truthy(QuestionOrField(x)))

\* whether lines 167-168 are reached: the chat completion is called
FilterCallsSolar(qs) ==
    With(ListOf(qs), LAMBDA raw : ~raw.raise /\ NormalizeItems(raw.val) # <<>>)

\* fault: a failed filtering call leaves no question
FilterFailsEmpty(normalized, solar) ==
    IF solar.raise THEN <<>>
    ELSE With(LoadsOrSpan(solar.text, "[", "]"), LAMBDA r :
            IF ~r.raised /\ IsList(r.parsed) THEN KeepQuestionItems(r.parsed.v) ELSE <<>>)

\* lines 163-188: the normalized list against what the chat completion does
FilterNormalized(normalized, solar) ==
    IF solar.raise THEN normalized
    ELSE With(LoadsOrSpan(solar.text, "[", "]"), LAMBDA r :
            IF r.raised THEN normalized
            ELSE IF IsList(r.parsed) /\ Truthy(r.parsed) THEN KeepQuestionItems(r.parsed.v)
            ELSE IF IsList(r.parsed) THEN <<>>
            ELSE normalized)

\* raise: the TypeError of line 151 leaves the function
_filter_questions_llm(qs, solar) ==
    With(ListOf(qs), LAMBDA raw :
        IF raw.raise THEN [raise |-> TRUE, val |-> <<>>]
        ELSE With(NormalizeItems(raw.val), LAMBDA normalized :
                IF normalized = <<>> THEN [raise |-> FALSE, val |-> <<>>]
                ELSE [raise |-> FALSE, val |-> FilterNormalized(normalized, solar)]))


(***************************************************************************)
(* agent.py 115-121: _normalize_policy_text                                *)
(***************************************************************************)
MAX_POLICY_TEXT_CHARS == 20000

Min(a, b) == IF a <= b THEN a ELSE b

\* text[:n]
Prefix(text, n) == SubSeq(text, 1, Min(Len(text), n))

\* line 119: re.sub(r"<[^>]+>", " ", text)
RECURSIVE TagSubFrom(_, _)
TagSubFrom(s, i) ==
    IF i > Len(s) THEN <<>>
    ELSE LET j == IF s[i] = "<" /\ i + 1 <= Len(s) /\ s[i + 1] # ">"
                  THEN FindFrom(s, ">", i + 2) ELSE 0
         IN  IF j # 0 THEN <<" ">> \o TagSubFrom(s, j + 1)
             ELSE <<s[i]>> \o TagSubFrom(s, i + 1)

\* line 120: re.sub(r"\s+", " ", text)
RECURSIVE CollapseSpaceFrom(_, _)
CollapseSpaceFrom(s, i) ==
    IF i > Len(s) THEN <<>>
    ELSE IF IsSpace(s[i]) THEN <<" ">> \o CollapseSpaceFrom(s, SkipWs(s, i))
    ELSE <<s[i]>> \o CollapseSpaceFrom(s, i + 1)

_normalize_policy_text(raw_text) ==
    LET t1 == IF Contains(raw_text, <<"<">>) /\ Contains(raw_text, <<">">>)
              THEN TagSubFrom(raw_text, 1) ELSE raw_text
        t2 == Strip(CollapseSpaceFrom(t1, 1))
    IN  Prefix(t2, MAX_POLICY_TEXT_CHARS)

(***************************************************************************)
(* agent.py 75-112: _policy_text_from_parsed_doc.  raise: the              *)
(* AttributeError of line 91 when "content" is a str and there is no       *)
(* "elements" list.                                                        *)
(***************************************************************************)
NonBlankStr(x) == IsStr(x) /\ Strip(x.v) # <<>>

\* lines 82-89 for one key: the text found, or found |-> FALSE
TextUnderKey(doc, key) ==
    With(DictGet(doc, key, JNull), LAMBDA val :
        IF NonBlankStr(val) THEN [found |-> TRUE, text |-> val.v]
        ELSE IF IsDict(val) /\ NonBlankStr(DictGet(val, <<"text">>, JNull))
        THEN [found |-> TRUE, text |-> DictGet(val, <<"text">>, JNull).v]
        ELSE IF IsDict(val) /\ NonBlankStr(DictGet(val, <<"html">>, JNull))
        THEN [found |-> TRUE, text |-> DictGet(val, <<"html">>, JNull).v]
        ELSE [found |-> FALSE, text |-> <<>>])

\* x or y or z
Or3(x, y, z) == IF Truthy(x) THEN x ELSE IF Truthy(y) THEN y ELSE z

\* lines 94-106: the stripped text of each element that has one
RECURSIVE ElementParts(_)
\* lines 96-103: the text of one element, or None
ElementText(el) ==
    IF ~IsDict(el) THEN JNull
    ELSE With(DictGet(el, <<"content">>, JNull), LAMBDA content :
            IF IsDict(content)
            THEN Or3(DictGet(content, <<"text">>, JNull),
                     DictGet(content, <<"markdown">>, JNull),
                     DictGet(content, <<"html">>, JNull))
            ELSE IF IsStr(content) THEN content ELSE JNull)

ElementParts(elements) ==
    IF elements = <<>> THEN <<>>
    ELSE With(ElementText(Head(elements)), LAMBDA t :
            IF Truthy(t) /\ Strip(PyStr(t)) # <<>> THEN <<Strip(PyStr(t))>> ELSE <<>>)
         \o ElementParts(Tail(elements))

\* lines 82-89: the first of "html", "text", "content" that holds a text
FirstText(doc) ==
    With(<<TextUnderKey(doc, <<"html">>), TextUnderKey(doc, <<"text">>),
           TextUnderKey(doc, <<"content">>)>>, LAMBDA found :
        IF found[1].found THEN found[1]
        ELSE IF found[2].found THEN found[2]
        ELSE found[3])

\* lines 91-110: the joined element texts, or the whole document serialised
ElementsText(doc) ==
    With(<<DictGet(doc, <<"elements">>, JNull), DictGet(doc, <<"content">>, JObj(<<>>))>>,
         LAMBDA tc :
        IF ~Truthy(tc[1]) /\ ~IsDict(tc[2]) THEN [raise |-> TRUE, text |-> <<>>]
        ELSE With(IF Truthy(tc[1]) THEN tc[1] ELSE DictGet(tc[2], <<"elements">>, JNull),
                  LAMBDA elements :
                With(IF IsList(elements) THEN ElementParts(elements.v) ELSE <<>>,
                     LAMBDA parts :
                    IF parts # <<>> THEN [raise |-> FALSE, text |-> Join(<<" ">>, parts)]
                    ELSE [raise |-> FALSE, text |-> json_dumps(doc)])))

_policy_text_from_parsed_doc(doc) ==
    With(FirstText(doc), LAMBDA first :
        With(IF first.found THEN [raise |-> FALSE, text |-> first.text]
             ELSE ElementsText(doc), LAMBDA r :
            IF r.raise THEN r
            ELSE [raise |-> FALSE, text |-> _normalize_policy_text(r.text)]))

(***************************************************************************)
(* prompts.py 53-70: format_profile_structured                             *)
(***************************************************************************)
RECURSIVE ProfileParts(_)
ProfileParts(pairs) ==
    IF pairs = <<>> THEN <<>>
    ELSE LET key == Head(pairs).k
             value == Head(pairs).val
         IN  (IF Truthy(value) /\ Strip(PyStr(value)) # <<>>
              THEN << key \o <<":", " ">> \o PyStr(value) >> ELSE <<>>)
             \o ProfileParts(Tail(pairs))

format_profile_structured(parsed) ==
    IF ~(IsDict(parsed) /\ Truthy(parsed)) THEN <<>>
    ELSE Join(<<",", " ">>, ProfileParts(parsed.v))

(***************************************************************************)
(* agent.py 124-146: _get_structured_profile                               *)
(***************************************************************************)
_get_structured_profile(prof, solar) ==
    IF solar.raise THEN Strip(prof)
    ELSE With(LoadsOrSpan(solar.text, "{", "}"), LAMBDA r :
            IF ~r.raised /\ IsDict(r.parsed) /\ Truthy(r.parsed)
            THEN With(format_profile_structured(r.parsed), LAMBDA structured :
                    IF structured # <<>> THEN structured ELSE Strip(prof))
            ELSE Strip(prof))

(***************************************************************************)
(* Prompts, as the record of the parts the template embeds.                *)
(* prompts.py 73-152 build_plan_prompt, 254-347 build_solar_prompt.        *)
(***************************************************************************)
PLAN_PROMPT_POLICY_CHARS == 8000

\* the optional "extracted key information" section; ie_extract is None or a str
IeSection(ie) ==
    IF Truthy(ie) THEN <<"## ie_extract", "\n">> \o ie.v ELSE <<>>

build_plan_prompt(prof, policy, ie) ==
    [ profile |-> prof,
      policy_text |-> Prefix(policy, PLAN_PROMPT_POLICY_CHARS),
      ie_section |-> IeSection(ie) ]

build_solar_prompt(prof, policy, agent_plan, answered, ie) ==
    [ profile |-> prof,
      answered_section |-> IF Truthy(answered)
                           THEN <<"## answered_fields", "\n">> \o answered.v
                           ELSE <<>>,
      agent_plan |-> agent_plan,
      policy_text |-> policy,
      ie_section |-> IeSection(ie) ]

(***************************************************************************)
(* agent.py 224-241: _plan_phase.  raise: call_solar raised (line 230 is   *)
(* not inside a try).                                                      *)
(***************************************************************************)
EmptyPlan ==
    JObj(<< [k |-> <<"certain_conditions">>, val |-> JArr(<<>>)],
            [k |-> <<"uncertain_conditions">>, val |-> JArr(<<>>)],
            [k |-> <<"questions">>, val |-> JArr(<<>>)],
            [k |-> <<"action_candidates">>, val |-> JArr(<<>>)] >>)

_plan_phase(solar) ==
    IF solar.raise THEN [raise |-> TRUE, val |-> JNull]
    ELSE With(_parse_plan_json(solar.text), LAMBDA parsed :
            IF Truthy(parsed) THEN [raise |-> FALSE, val |-> parsed]
            ELSE [raise |-> FALSE, val |-> EmptyPlan])

(***************************************************************************)
(* upstage_client.py 54-79: call_document_parse on the HTTP response.      *)
(***************************************************************************)
\* requests' Response.ok
ResponseOk(status) == status < 400

DocumentParseHint(response) ==
    IF response.status = 500 THEN "server_error_retry_later"
    ELSE IF response.status = 401 THEN "check_api_key_or_billing"
    ELSE "response_text"

call_document_parse(response) ==
    IF ~ResponseOk(response.status)
    THEN [ raise |-> TRUE,
           error |-> [ type |-> "RuntimeError", at |-> "call_document_parse",
                       status |-> response.status, hint |-> DocumentParseHint(response) ],
           val |-> JNull ]
    ELSE [ raise |-> FALSE,
           error |-> [type |-> "none", at |-> "none", status |-> 0, hint |-> "none"],
           val |-> response.json ]

(***************************************************************************)
(* upstage_client.py 82-118: call_information_extract on what the service  *)
(* does: kind "error" (the request raises), "no_choices" (IndexError at    *)
(* line 114) or "content" (a str, or None).                                *)
(***************************************************************************)
call_information_extract(response) ==
    IF response.kind # "content" THEN [raise |-> TRUE, val |-> JNull]
    ELSE IF IsStr(response.content)
    THEN With(json_loads(response.content.v), LAMBDA r :
            [raise |-> FALSE, val |-> IF r.ok THEN r.val ELSE JObj(<<>>)])
    ELSE [raise |-> FALSE, val |-> response.content]

\* agent.py 244-254: None, or the result serialised
_safe_information_extract(response) ==
    With(call_information_extract(response), LAMBDA result :
        IF result.raise THEN JNull ELSE JStr(json_dumps(result.val)))


(***************************************************************************)
(* agent.py 25-31: REQUIRED_HEADERS                                        *)
(***************************************************************************)
REQUIRED_HEADERS ==
    << <<"[", "jagyeok", " ", "pandan", "]">>,
       <<"[", "sincheong", " ", "ganeung", " ", "jeongchaek", "]">>,
       <<"[", "yesang", " ", "hyetaek", "]">>,
       <<"[", "daeum", " ", "dangye", "]">>,
       <<"[", "hwagin", " ", "piryo", " ", "sahang", "]">> >>

\* the body appended under a missing header (agent.py 71)
PlaceholderLine == <<"-", " ", "naeyongi", " ", "saengseongdoeji", " ", "anasseumnida.">>

(***************************************************************************)
(* agent.py 53-60: _clean_terminal_output                                  *)
(***************************************************************************)
MaxBoldPasses == 5

\* end of the run of non-"*" tokens that starts at i (the greedy [^*]*)
RECURSIVE SkipNonStar(_, _)
SkipNonStar(s, i) ==
    IF i <= Len(s) /\ s[i] # "*" THEN SkipNonStar(s, i + 1) ELSE i

IsStar(s, i) == i >= 1 /\ i <= Len(s) /\ s[i] = "*"

\* re.match of \*\*([^*]*)\*\* at position i: the index of the closing pair, or 0
BoldMatch(s, i) ==
    IF IsStar(s, i) /\ IsStar(s, i + 1)
    THEN LET j == SkipNonStar(s, i + 2)
         IN  IF IsStar(s, j) /\ IsStar(s, j + 1) THEN j ELSE 0
    ELSE 0

\* re.sub(r"\*\*([^*]*)\*\*", r"\1", s): leftmost, non-overlapping
RECURSIVE BoldSubFrom(_, _)
BoldSubFrom(s, i) ==
    IF i > Len(s) THEN <<>>
    ELSE LET j == BoldMatch(s, i)
         IN  IF j # 0 THEN SubSeq(s, i + 2, j - 1) \o BoldSubFrom(s, j + 2)
             ELSE <<s[i]>> \o BoldSubFrom(s, i + 1)

BoldSub(s) == BoldSubFrom(s, 1)

\* the loop of lines 56-59: at most n passes, stopping at a fixed point
RECURSIVE BoldPasses(_, _)
BoldPasses(s, n) ==
    IF n = 0 THEN s
    ELSE LET t == BoldSub(s) IN IF t = s THEN s ELSE BoldPasses(t, n - 1)

_clean_terminal_output(text) == Strip(BoldPasses(Strip(text), MaxBoldPasses))

(***************************************************************************)
(* agent.py 63-72: _ensure_required_headers                                *)
(***************************************************************************)
\* line 65: the required headers that are not in the text, in order
MissingHeaders(text) ==
    SelectSeq(REQUIRED_HEADERS, LAMBDA h : ~Contains(text, h))

\* lines 70-71: one "\n{header}\n- ..." entry per missing header
RECURSIVE HeaderEntries(_)
HeaderEntries(missing) ==
    IF missing = <<>> THEN <<>>
    ELSE << <<"\n">> \o Head(missing) \o <<"\n">> \o PlaceholderLine >>
         \o HeaderEntries(Tail(missing))

\* fault: the placeholders are added only to a text that has no header at all
EnsureAllOrNothing(text) ==
    IF Len(MissingHeaders(text)) < Len(REQUIRED_HEADERS) THEN Strip(text)
    ELSE Strip(Join(<<"\n">>, (IF Strip(text) # <<>> THEN <<Strip(text)>> ELSE <<>>)
                              \o HeaderEntries(REQUIRED_HEADERS)))

\* fault: the joined text is returned without the final strip()
EnsureNoFinalStrip(text) ==
    IF MissingHeaders(text) = <<>> THEN Strip(text)
    ELSE Join(<<"\n">>, (IF Strip(text) # <<>> THEN <<Strip(text)>> ELSE <<>>)
                        \o HeaderEntries(MissingHeaders(text)))

_ensure_required_headers(text) ==
    With(MissingHeaders(text), LAMBDA missing :
        IF missing = <<>> THEN Strip(text)
        ELSE Strip(Join(<<"\n">>, (IF Strip(text) # <<>> THEN <<Strip(text)>> ELSE <<>>)
                                  \o HeaderEntries(missing))))

(***************************************************************************)
(* The texts the final chat completion returns in the header model:        *)
(* up to MaxChunks pieces, each a header, bold markup, white space, other  *)
(* text, or half of a header split by bold markup.                         *)
(***************************************************************************)
HeaderChunks ==
    { REQUIRED_HEADERS[i] : i \in 1..Len(REQUIRED_HEADERS) }
    \cup { <<"*", "*">>, <<"*">>, <<" ">>, <<"\n">>, <<"x">>,
           <<"[", "jagyeok", "*", "*">>, <<"*", "*", " ", "pandan", "]">> }

RECURSIVE ChunkTexts(_)
ChunkTexts(n) ==
    IF n = 0 THEN { <<>> }
    ELSE LET shorter == ChunkTexts(n - 1)
         IN  shorter \cup { t \o c : t \in shorter, c \in HeaderChunks }

FinalOutputs == ChunkTexts(MaxChunks)

(***************************************************************************)
(* Header model: the tail of run() (agent.py 396-403) on any model text,   *)
(* and header completion applied to a text directly and to its own output. *)
(***************************************************************************)
(***************************************************************************)
(* Profile merge model: _append_profile_field applied repeatedly.  The     *)
(* callers (agent.py 298, 301, 305) always pass a stripped profile.        *)
(***************************************************************************)
FieldNames == { <<"a">>, <<"b">>, <<"a", "b">> }
FieldValues == { <<"1">>, <<"2">> }
StartProfiles == { <<>>, <<"y">>, <<"y", "/", "z">> }

ProfileInputs ==
    /\ ppc = "ready"
    /\ pProfile \in StartProfiles
    /\ pPrev = <<>>
    /\ pField = <<>>
    /\ pValue = <<>>
    /\ pCount = 0

AppendField ==
    /\ ppc \in {"ready", "appended"}
    /\ pCount < MaxAppends
    /\ \E f \in FieldNames, v \in FieldValues :
          /\ pProfile' = _append_profile_field(pProfile, f, v)
          /\ pField' = f
          /\ pValue' = v
    /\ pPrev' = pProfile
    /\ pCount' = pCount + 1
    /\ ppc' = "appended"
    /\ UNCHANGED <<hdrVars, jsonVars, filtVars, runVars, docVars>>

(***************************************************************************)
(* Question filter model: _filter_questions_llm on question lists of every *)
(* item shape, against every kind of filtering output.                     *)
(***************************************************************************)
Pair(key, val) == [k |-> key, val |-> val]

QuestionA == JObj(<<Pair(<<"field">>, JStr(<<"a">>)), Pair(<<"question">>, JStr(<<"qa">>))>>)
QuestionB == JObj(<<Pair(<<"field">>, JStr(<<"b">>)), Pair(<<"question">>, JStr(<<"qb">>))>>)
\* a question with no field identifier
QuestionNoField == JObj(<<Pair(<<"question">>, JStr(<<"qc">>))>>)

QuestionItems ==
    { QuestionA, QuestionB, QuestionNoField,
      JObj(<<>>),                                  \* neither question nor field
      JStr(<<"qs">>),                             \* a plain string
      JStr(<<" ">>) }                             \* a blank string

QuestionValues ==
    { JArr(w) : w \in SeqsUpTo(QuestionItems, MaxQuestions) } \cup { JNull }

\* what the filtering chat completion may do
FilterOutcomes ==
    { SolarRaise,
      SolarText(<<>>),
      SolarText(<<"x", "x">>),
      SolarText(<<"x", "[", "x", "]">>),
      SolarText(json_dumps(JObj(<<Pair(<<"questions">>, JArr(<<QuestionA>>))>>))),
      SolarText(<<"[", "]">>),
      SolarText(json_dumps(JArr(<<QuestionA>>))),
      SolarText(<<"x", " ">> \o json_dumps(JArr(<<QuestionB, QuestionA>>)) \o <<"\n">>),
      SolarText(json_dumps(JArr(<<JStr(<<"qs">>), JObj(<<>>)>>))) }

FilterInputs ==
    /\ fpc = "input"
    /\ fQuestions \in QuestionValues
    /\ fSolar \in FilterOutcomes
    /\ fResult = <<>>

FilterQuestions ==
    /\ fpc = "input"
    /\ fResult' = _filter_questions_llm(fQuestions, fSolar).val
    /\ fpc' = "filtered"
    /\ UNCHANGED <<fQuestions, fSolar>>
    /\ UNCHANGED <<hdrVars, jsonVars, profVars, runVars, docVars>>


(***************************************************************************)
(* _policy_text_from_parsed_doc on the shapes a parsed document may have:  *)
(* each of "html", "text", "content", "elements" missing, blank, a string, *)
(* null, a mapping or a list.                                              *)
(***************************************************************************)
HtmlFields ==
    { <<>>,
      << Pair(<<"html">>, JStr(<<>>)) >>,
      << Pair(<<"html">>, JStr(<<" ">>)) >>,
      << Pair(<<"html">>, JStr(<<"<", "b", ">", "h", " ", "\n">>)) >> }

TextFields ==
    { <<>>,
      << Pair(<<"text">>, JNull) >>,
      << Pair(<<"text">>, JStr(<<"t">>)) >> }

TextElement == JObj(<< Pair(<<"category">>, JStr(<<"paragraph">>)),
                       Pair(<<"content">>, JStr(<<" ", "e">>)) >>)

MarkdownElement == JObj(<< Pair(<<"content">>,
                                JObj(<< Pair(<<"text">>, JStr(<<>>)),
                                        Pair(<<"markdown">>, JStr(<<"m">>)) >>)) >>)

ContentFields ==
    { <<>>,
      << Pair(<<"content">>, JNull) >>,
      << Pair(<<"content">>, JStr(<<>>)) >>,
      << Pair(<<"content">>, JStr(<<" ">>)) >>,
      << Pair(<<"content">>, JStr(<<"c">>)) >>,
      << Pair(<<"content">>, JObj(<<>>)) >>,
      << Pair(<<"content">>, JObj(<< Pair(<<"text">>, JStr(<<"n">>)) >>)) >>,
      << Pair(<<"content">>, JObj(<< Pair(<<"html">>, JStr(<<" ">>)) >>)) >>,
      << Pair(<<"content">>, JObj(<< Pair(<<"text">>, JStr(<<>>)),
                                     Pair(<<"elements">>, JArr(<<MarkdownElement>>)) >>)) >> }

ElementsFields ==
    { <<>>,
      << Pair(<<"elements">>, JNull) >>,
      << Pair(<<"elements">>, JArr(<<>>)) >>,
      << Pair(<<"elements">>, JArr(<<TextElement>>)) >>,
      << Pair(<<"elements">>, JArr(<<JStr(<<"x">>), MarkdownElement, TextElement>>)) >> }

DocInputs ==
    /\ dpc = "input"
    /\ dDoc \in { JObj(h \o t \o c \o e) :
                     h \in HtmlFields, t \in TextFields,
                     c \in ContentFields, e \in ElementsFields }
    /\ dResult = [raise |-> FALSE, text |-> <<>>]

\* agent.py 75-112: one call of _policy_text_from_parsed_doc
PolicyText ==
    /\ dpc = "input"
    /\ dResult' = _policy_text_from_parsed_doc(dDoc)
    /\ dpc' = "returned"
    /\ UNCHANGED dDoc
    /\ UNCHANGED <<hdrVars, jsonVars, profVars, filtVars, runVars>>


(***************************************************************************)
(* run(): what the environment may do at each remote call and prompt.      *)
(***************************************************************************)
NoError == [type |-> "none", at |-> "none", status |-> 0, hint |-> "none"]
RunError(type, at) == [type |-> type, at |-> at, status |-> 0, hint |-> "none"]

\* agent.py 326: ThreadPoolExecutor(max_workers=2)
MAX_WORKERS == 2

TaskNames == {"parse", "ie"}

NoSlot == [set |-> FALSE, raise |-> FALSE, error |-> NoError, val |-> JNull]

\* the parsed document of a successful document parse
HtmlDoc ==
    JObj(<< Pair(<<"content">>,
                 JObj(<< Pair(<<"html">>, JStr(<<"<", "p", ">", "policy", "\n", "text",
                                                "<", "/", "p", ">">>)) >>)) >>)

ParseResponses ==
    { [status |-> 200, json |-> HtmlDoc],
      [status |-> 500, json |-> JNull],
      [status |-> 503, json |-> JNull],
      [status |-> 401, json |-> JNull],
      [status |-> 404, json |-> JNull] }

IeObjectText == <<"{">> \o Quoted(<<"program_name">>) \o <<":">> \o Quoted(<<"p">>) \o <<"}">>

IeResponses ==
    { [kind |-> "error", content |-> JNull],        \* network or auth error
      [kind |-> "no_choices", content |-> JNull],
      [kind |-> "content", content |-> JStr(IeObjectText)],
      [kind |-> "content", content |-> JStr(<<"x", "x">>)],   \* not JSON
      [kind |-> "content", content |-> JNull] }               \* no content

\* the information-extraction call failed: it raised, or its response is malformed
IeFailed(response) ==
    \/ response.kind # "content"
    \/ ~IsStr(response.content)
    \/ ~json_loads(response.content.v).ok

StartProfile == <<"y", " ">>

StructureOutcomes ==
    { SolarRaise,
      SolarText(<<"x", "x">>),
      SolarText(<<"{">> \o Quoted(<<"age">>) \o <<":">> \o Quoted(<<"y">>) \o <<"}">>) }

PlanWith(qs) ==
    JObj(<< Pair(<<"certain_conditions">>, JArr(<<JStr(<<"c">>)>>)),
            Pair(<<"uncertain_conditions">>, JArr(<<JStr(<<"u">>)>>)),
            Pair(<<"questions">>, qs),
            Pair(<<"action_candidates">>, JArr(<<>>)) >>)

PlanOutcomes ==
    { SolarRaise,
      SolarText(<<>>),
      SolarText(<<"x", "{", "x">>),
      SolarText(<<"<fence>", "json", "\n">> \o json_dumps(PlanWith(JArr(<<>>)))
                \o <<"\n", "<fence>">>),
      SolarText(<<"<think>", "x", "</think>">> \o json_dumps(PlanWith(JArr(<<QuestionA>>)))),
      SolarText(json_dumps(PlanWith(JArr(<<QuestionB, JStr(<<"qs">>)>>)))),
      SolarText(json_dumps(PlanWith(JNum("5")))) }

FilterOutcomesRun ==
    { SolarRaise,
      SolarText(<<"x", "x">>),
      SolarText(<<"[", "]">>),
      SolarText(json_dumps(JArr(<<QuestionA>>))),
      SolarText(json_dumps(JArr(<<QuestionNoField, QuestionB>>))) }

Answers == { <<>>, <<" ">>, <<"2">> }

ExtractOutcomes ==
    { SolarRaise,
      SolarText(<<"x", "x">>),
      SolarText(<<"{", "}">>),
      SolarText(json_dumps(JObj(<<Pair(<<"a">>, JStr(<<"2">>))>>))),
      SolarText(json_dumps(JObj(<<Pair(<<"c">>, JStr(<<"2">>))>>))),
      SolarText(json_dumps(JObj(<<Pair(<<"b">>, JNum("2"))>>))) }

FinalOutcomes ==
    { SolarRaise,
      SolarText(<<>>),
      SolarText(Concat(REQUIRED_HEADERS)),
      SolarText(<<"*", "*">> \o REQUIRED_HEADERS[1] \o <<"*", "*", "\n", "x">>) }


(***************************************************************************)
(* run() (agent.py 309-403), one action per step of the control thread and *)
(* of the two pool workers.                                                *)
(***************************************************************************)
NoAnswer == [field |-> <<>>, answer |-> <<>>, before |-> <<>>, solar |-> SolarRaise]

RunInit ==
    /\ pc = "check_path"
    /\ err = NoError
    /\ pdf_exists \in BOOLEAN
    /\ tasks = [t \in TaskNames |-> "none"]
    /\ future_parse = NoSlot
    /\ future_ie = NoSlot
    /\ ie_response = [kind |-> "none", content |-> JNull]
    /\ parsed_doc = JNull
    /\ ie_extract = JNull
    /\ policy_text = <<>>
    /\ profile = StartProfile
    /\ profile_for_prompts = <<>>
    /\ plan_result = JNull
    /\ questions = <<>>
    /\ qidx = 0
    /\ answered_fields = <<>>
    /\ round = 1
    /\ plan_outputs = <<>>
    /\ plan_prompts = <<>>
    /\ final_prompt = [built |-> FALSE]
    /\ report = <<>>
    /\ steps = <<>>
    /\ last_answer = NoAnswer

Raise(error) ==
    /\ pc' = "raised"
    /\ err' = error

\* lines 320-323
CheckPath ==
    /\ pc = "check_path"
    /\ IF pdf_exists
       THEN pc' = "submit_parse" /\ err' = err
       ELSE Raise(RunError("FileNotFoundError", "run"))
    /\ UNCHANGED <<pdf_exists, tasks, future_parse, future_ie, ie_response, parsed_doc,
                   ie_extract, policy_text, profile, profile_for_prompts, plan_result,
                   questions, qidx, answered_fields, round, plan_outputs, plan_prompts,
                   final_prompt, report, steps, last_answer>>
    /\ UNCHANGED <<hdrVars, jsonVars, profVars, filtVars, docVars>>

\* line 327: executor.submit(call_document_parse, ...)
SubmitParse ==
    /\ pc = "submit_parse"
    /\ tasks' = [tasks EXCEPT !["parse"] = "queued"]
    /\ pc' = "submit_ie"
    /\ steps' = Append(steps, "ingest")
    /\ UNCHANGED <<err, pdf_exists, future_parse, future_ie, ie_response, parsed_doc,
                   ie_extract, policy_text, profile, profile_for_prompts, plan_result,
                   questions, qidx, answered_fields, round, plan_outputs, plan_prompts,
                   final_prompt, report, last_answer>>
    /\ UNCHANGED <<hdrVars, jsonVars, profVars, filtVars, docVars>>

\* line 328: executor.submit(_safe_information_extract, ...)
SubmitIE ==
    /\ pc = "submit_ie"
    /\ tasks' = [tasks EXCEPT !["ie"] = "queued"]
    /\ pc' = "await_parse"
    /\ UNCHANGED <<err, pdf_exists, future_parse, future_ie, ie_response, parsed_doc,
                   ie_extract, policy_text, profile, profile_for_prompts, plan_result,
                   questions, qidx, answered_fields, round, plan_outputs, plan_prompts,
                   final_prompt, report, steps, last_answer>>
    /\ UNCHANGED <<hdrVars, jsonVars, profVars, filtVars, docVars>>

\* a pool worker takes a queued task: at most MAX_WORKERS run at once
StartTask ==
    /\ \E t \in TaskNames :
          /\ tasks[t] = "queued"
          /\ Cardinality({u \in TaskNames : tasks[u] = "running"}) < MAX_WORKERS
          /\ tasks' = [tasks EXCEPT ![t] = "running"]
    /\ UNCHANGED <<pc, err, pdf_exists, future_parse, future_ie, ie_response, parsed_doc,
                   ie_extract, policy_text, profile, profile_for_prompts, plan_result,
                   questions, qidx, answered_fields, round, plan_outputs, plan_prompts,
                   final_prompt, report, steps, last_answer>>
    /\ UNCHANGED <<hdrVars, jsonVars, profVars, filtVars, docVars>>

\* the worker running call_document_parse finishes and fills its future
FinishParse ==
    /\ tasks["parse"] = "running"
    /\ \E response \in ParseResponses :
          \E r \in {call_document_parse(response)} :
             future_parse' = [set |-> TRUE, raise |-> r.raise, error |-> r.error,
                              val |-> r.val]
    /\ tasks' = [tasks EXCEPT !["parse"] = "done"]
    /\ UNCHANGED <<pc, err, pdf_exists, future_ie, ie_response, parsed_doc,
                   ie_extract, policy_text, profile, profile_for_prompts, plan_result,
                   questions, qidx, answered_fields, round, plan_outputs, plan_prompts,
                   final_prompt, report, steps, last_answer>>
    /\ UNCHANGED <<hdrVars, jsonVars, profVars, filtVars, docVars>>

\* the worker running _safe_information_extract finishes and fills its future
FinishIE ==
    /\ tasks["ie"] = "running"
    /\ \E response \in IeResponses :
          /\ ie_response' = response
          /\ future_ie' = [set |-> TRUE, raise |-> FALSE, error |-> NoError,
                           val |-> _safe_information_extract(response)]
    /\ tasks' = [tasks EXCEPT !["ie"] = "done"]
    /\ UNCHANGED <<pc, err, pdf_exists, future_parse, parsed_doc,
                   ie_extract, policy_text, profile, profile_for_prompts, plan_result,
                   questions, qidx, answered_fields, round, plan_outputs, plan_prompts,
                   final_prompt, report, steps, last_answer>>
    /\ UNCHANGED <<hdrVars, jsonVars, profVars, filtVars, docVars>>

\* line 329: future_parse.result() blocks until the future is set
AwaitParse ==
    /\ pc = "await_parse"
    /\ future_parse.set
    /\ IF future_parse.raise
       THEN /\ pc' = "exit_pool_raising"
            /\ err' = future_parse.error
            /\ parsed_doc' = parsed_doc
       ELSE /\ pc' = "await_ie"
            /\ err' = err
            /\ parsed_doc' = future_parse.val
    /\ UNCHANGED <<pdf_exists, tasks, future_parse, future_ie, ie_response,
                   ie_extract, policy_text, profile, profile_for_prompts, plan_result,
                   questions, qidx, answered_fields, round, plan_outputs, plan_prompts,
                   final_prompt, report, steps, last_answer>>
    /\ UNCHANGED <<hdrVars, jsonVars, profVars, filtVars, docVars>>

\* line 330: future_ie.result()
AwaitIE ==
    /\ pc = "await_ie"
    /\ future_ie.set
    /\ ie_extract' = future_ie.val
    /\ pc' = "exit_pool"
    /\ UNCHANGED <<err, pdf_exists, tasks, future_parse, future_ie, ie_response, parsed_doc,
                   policy_text, profile, profile_for_prompts, plan_result,
                   questions, qidx, answered_fields, round, plan_outputs, plan_prompts,
                   final_prompt, report, steps, last_answer>>
    /\ UNCHANGED <<hdrVars, jsonVars, profVars, filtVars, docVars>>

\* the end of the with block (line 326): ThreadPoolExecutor.__exit__ is
\* shutdown(wait=True), which returns once every submitted task has finished
\* fault: shutdown(wait=False)
ShutdownNoWait == TRUE

ShutdownReturns == \A t \in TaskNames : tasks[t] \in {"none", "done"}

ExitPool ==
    /\ pc \in {"exit_pool", "exit_pool_raising"}
    /\ ShutdownReturns
    /\ pc' = IF pc = "exit_pool" THEN "normalize" ELSE "raised"
    /\ UNCHANGED <<err, pdf_exists, tasks, future_parse, future_ie, ie_response, parsed_doc,
                   ie_extract, policy_text, profile, profile_for_prompts, plan_result,
                   questions, qidx, answered_fields, round, plan_outputs, plan_prompts,
                   final_prompt, report, steps, last_answer>>
    /\ UNCHANGED <<hdrVars, jsonVars, profVars, filtVars, docVars>>

\* line 331
Normalize ==
    /\ pc = "normalize"
    /\ \E r \in {_policy_text_from_parsed_doc(parsed_doc)} :
          IF r.raise
          THEN Raise(RunError("AttributeError", "_policy_text_from_parsed_doc"))
               /\ policy_text' = policy_text
          ELSE pc' = "structure" /\ err' = err /\ policy_text' = r.text
    /\ steps' = Append(steps, "normalize")
    /\ UNCHANGED <<pdf_exists, tasks, future_parse, future_ie, ie_response, parsed_doc,
                   ie_extract, profile, profile_for_prompts, plan_result,
                   questions, qidx, answered_fields, round, plan_outputs, plan_prompts,
                   final_prompt, report, last_answer>>
    /\ UNCHANGED <<hdrVars, jsonVars, profVars, filtVars, docVars>>

\* lines 334 and 381: _get_structured_profile(profile)
StructureProfile ==
    /\ pc = "structure"
    /\ \E solar \in StructureOutcomes :
          profile_for_prompts' = _get_structured_profile(profile, solar)
    /\ pc' = "plan"
    /\ steps' = Append(steps, "structure")
    /\ UNCHANGED <<err, pdf_exists, tasks, future_parse, future_ie, ie_response, parsed_doc,
                   ie_extract, policy_text, profile, plan_result,
                   questions, qidx, answered_fields, round, plan_outputs, plan_prompts,
                   final_prompt, report, last_answer>>
    /\ UNCHANGED <<hdrVars, jsonVars, profVars, filtVars, docVars>>

\* lines 338 and 382: _plan_phase(...)
PlanPhase ==
    /\ pc = "plan"
    /\ \E solar \in PlanOutcomes :
          \E r \in {_plan_phase(solar)} :
             /\ plan_outputs' = Append(plan_outputs, solar)
             /\ IF r.raise
                THEN Raise(RunError("SolarError", "_plan_phase"))
                     /\ plan_result' = plan_result
                ELSE /\ plan_result' = r.val
                     /\ pc' = IF round = 1 THEN "filter" ELSE "final"
                     /\ err' = err
    /\ plan_prompts' = Append(plan_prompts,
                              build_plan_prompt(profile_for_prompts, policy_text, ie_extract))
    /\ steps' = Append(steps, "plan")
    /\ UNCHANGED <<pdf_exists, tasks, future_parse, future_ie, ie_response, parsed_doc,
                   ie_extract, policy_text, profile, profile_for_prompts,
                   questions, qidx, answered_fields, round,
                   final_prompt, report, last_answer>>
    /\ UNCHANGED <<hdrVars, jsonVars, profVars, filtVars, docVars>>


\* line 350: _filter_questions_llm(...); lines 351-356: enter the loop or not
FilterStep ==
    /\ pc = "filter"
    /\ \E qs \in {DictGet(plan_result, <<"questions">>, JArr(<<>>))} :
       \E calls \in {FilterCallsSolar(qs)} :
       \E solar \in IF calls THEN FilterOutcomesRun ELSE {SolarRaise} :
       \E r \in {_filter_questions_llm(qs, solar)} :
          /\ IF r.raise
             THEN Raise(RunError("TypeError", "_filter_questions_llm"))
             ELSE pc' = (IF r.val # <<>> THEN "ask" ELSE "final") /\ err' = err
          /\ questions' = r.val
          /\ qidx' = 1
          /\ steps' = steps \o <<"filter">> \o (IF calls THEN <<"filter_call">> ELSE <<>>)
    /\ UNCHANGED <<pdf_exists, tasks, future_parse, future_ie, ie_response, parsed_doc,
                   ie_extract, policy_text, profile, profile_for_prompts, plan_result,
                   answered_fields, round, plan_outputs, plan_prompts,
                   final_prompt, report, last_answer>>
    /\ UNCHANGED <<hdrVars, jsonVars, profVars, filtVars, docVars>>

\* lines 357-362: the field identifier and the text of a question item
ItemField(item) == IF IsDict(item) THEN DictGet(item, <<"field">>, JNull) ELSE JNull

ItemQuestion(item) ==
    IF IsDict(item)
    THEN (IF Truthy(DictGet(item, <<"question">>, JNull))
          THEN DictGet(item, <<"question">>, JNull) ELSE ItemField(item))
    ELSE JStr(PyStr(item))

\* field_name or "" (lines 374 and 281), as the str the f-strings embed
FieldText(field_name) == IF Truthy(field_name) THEN PyStr(field_name) ELSE <<>>

\* lines 364-369: a question without text, or an empty answer, is skipped
SkipAnswer ==
    /\ pc = "ask"
    /\ qidx <= Len(questions)
    /\ \E answer \in Answers :
          /\ ~Truthy(ItemQuestion(questions[qidx])) \/ Strip(answer) = <<>>
          /\ steps' = IF Truthy(ItemQuestion(questions[qidx]))
                      THEN Append(steps, "ask") ELSE steps
    /\ qidx' = qidx + 1
    /\ UNCHANGED <<pc, err, pdf_exists, tasks, future_parse, future_ie, ie_response,
                   parsed_doc, ie_extract, policy_text, profile, profile_for_prompts,
                   plan_result, questions, answered_fields, round, plan_outputs,
                   plan_prompts, final_prompt, report, last_answer>>
    /\ UNCHANGED <<hdrVars, jsonVars, profVars, filtVars, docVars>>

\* fault: the answer is merged without the test for an empty answer
MergeAnyAnswer ==
    /\ pc = "ask"
    /\ qidx <= Len(questions)
    /\ Truthy(ItemQuestion(questions[qidx]))
    /\ \E answer \in Answers, solar \in ExtractOutcomes :
          \E field_name \in {ItemField(questions[qidx])} :
              /\ answer \in Answers
              /\ profile' = _update_profile_from_message_llm(
                                profile, Strip(answer), FieldText(field_name), solar)
              /\ last_answer' = [field |-> FieldText(field_name), answer |-> Strip(answer),
                                 before |-> profile, solar |-> solar]
              /\ IF Truthy(field_name) /\ field_name.t \in {"arr", "obj"}
                 THEN Raise(RunError("TypeError", "run"))     \* unhashable dict key
                      /\ answered_fields' = answered_fields
                 ELSE /\ pc' = pc
                      /\ err' = err
                      /\ answered_fields' =
                            IF Truthy(field_name)
                            THEN DictSet(answered_fields, PyStr(field_name), JStr(Strip(answer)))
                            ELSE answered_fields
    /\ qidx' = qidx + 1
    /\ steps' = steps \o <<"ask", "extract_call">>
    /\ UNCHANGED <<pdf_exists, tasks, future_parse, future_ie, ie_response,
                   parsed_doc, ie_extract, policy_text, profile_for_prompts,
                   plan_result, questions, round, plan_outputs,
                   plan_prompts, final_prompt, report>>
    /\ UNCHANGED <<hdrVars, jsonVars, profVars, filtVars, docVars>>

\* lines 367-377: a non-empty answer is merged into the profile
MergeAnswer ==
    /\ pc = "ask"
    /\ qidx <= Len(questions)
    /\ Truthy(ItemQuestion(questions[qidx]))
    /\ \E answer \in Answers, solar \in ExtractOutcomes :
          \E field_name \in {ItemField(questions[qidx])} :
              /\ Strip(answer) # <<>>
              /\ profile' = _update_profile_from_message_llm(
                                profile, Strip(answer), FieldText(field_name), solar)
              /\ last_answer' = [field |-> FieldText(field_name), answer |-> Strip(answer),
                                 before |-> profile, solar |-> solar]
              /\ IF Truthy(field_name) /\ field_name.t \in {"arr", "obj"}
                 THEN Raise(RunError("TypeError", "run"))     \* unhashable dict key
                      /\ answered_fields' = answered_fields
                 ELSE /\ pc' = pc
                      /\ err' = err
                      /\ answered_fields' =
                            IF Truthy(field_name)
                            THEN DictSet(answered_fields, PyStr(field_name), JStr(Strip(answer)))
                            ELSE answered_fields
    /\ qidx' = qidx + 1
    /\ steps' = steps \o <<"ask", "extract_call">>
    /\ UNCHANGED <<pdf_exists, tasks, future_parse, future_ie, ie_response,
                   parsed_doc, ie_extract, policy_text, profile_for_prompts,
                   plan_result, questions, round, plan_outputs,
                   plan_prompts, final_prompt, report>>
    /\ UNCHANGED <<hdrVars, jsonVars, profVars, filtVars, docVars>>

\* fault: the loop ends without the second structuring and plan
EndQuestionsNoReplan ==
    /\ pc = "ask"
    /\ qidx > Len(questions)
    /\ pc' = "final"
    /\ UNCHANGED <<err, pdf_exists, tasks, future_parse, future_ie, ie_response,
                   parsed_doc, ie_extract, policy_text, profile, profile_for_prompts,
                   plan_result, questions, qidx, answered_fields, round, plan_outputs,
                   plan_prompts, final_prompt, report, steps, last_answer>>
    /\ UNCHANGED <<hdrVars, jsonVars, profVars, filtVars, docVars>>

\* the for loop is exhausted: lines 380-382 run the second round
EndQuestions ==
    /\ pc = "ask"
    /\ qidx > Len(questions)
    /\ round' = 2
    /\ pc' = "structure"
    /\ UNCHANGED <<err, pdf_exists, tasks, future_parse, future_ie, ie_response,
                   parsed_doc, ie_extract, policy_text, profile, profile_for_prompts,
                   plan_result, questions, qidx, answered_fields, plan_outputs,
                   plan_prompts, final_prompt, report, steps, last_answer>>
    /\ UNCHANGED <<hdrVars, jsonVars, profVars, filtVars, docVars>>

\* lines 387-388
AnsweredJson(answered) == IF answered # <<>> THEN JStr(json_dumps(JObj(answered))) ELSE JNull

\* lines 387-403
FinalReport ==
    /\ pc = "final"
    /\ final_prompt' =
          [ built |-> TRUE,
            prompt |-> build_solar_prompt(profile_for_prompts, policy_text,
                                          json_dumps(plan_result),
                                          AnsweredJson(answered_fields), ie_extract) ]
    /\ \E solar \in FinalOutcomes :
          IF solar.raise
          THEN Raise(RunError("SolarError", "run")) /\ report' = report
          ELSE /\ report' = _ensure_required_headers(_clean_terminal_output(solar.text))
               /\ pc' = "done"
               /\ err' = err
    /\ steps' = Append(steps, "final_call")
    /\ UNCHANGED <<pdf_exists, tasks, future_parse, future_ie, ie_response,
                   parsed_doc, ie_extract, policy_text, profile, profile_for_prompts,
                   plan_result, questions, qidx, answered_fields, round, plan_outputs,
                   plan_prompts, last_answer>>
    /\ UNCHANGED <<hdrVars, jsonVars, profVars, filtVars, docVars>>

RunIdle ==
    /\ pc = "off" /\ err = NoError /\ pdf_exists = FALSE
    /\ tasks = [t \in TaskNames |-> "none"]
    /\ future_parse = NoSlot /\ future_ie = NoSlot
    /\ ie_response = [kind |-> "none", content |-> JNull]
    /\ parsed_doc = JNull /\ ie_extract = JNull /\ policy_text = <<>>
    /\ profile = <<>> /\ profile_for_prompts = <<>> /\ plan_result = JNull
    /\ questions = <<>> /\ qidx = 0 /\ answered_fields = <<>> /\ round = 1
    /\ plan_outputs = <<>> /\ plan_prompts = <<>> /\ final_prompt = [built |-> FALSE]
    /\ report = <<>> /\ steps = <<>> /\ last_answer = NoAnswer


HeaderIdle ==
    /\ hpc = "off" /\ hOutput = <<>> /\ hCleaned = <<>> /\ hReport = <<>> /\ hAgain = <<>>

JsonIdle ==
    /\ jpc = "off" /\ jKind = "other" /\ jObject = JNull /\ jInput = <<>> /\ jResult = JNull

ProfileIdle ==
    /\ ppc = "off" /\ pProfile = <<>> /\ pPrev = <<>> /\ pField = <<>>
    /\ pValue = <<>> /\ pCount = 0

FilterIdle ==
    /\ fpc = "off" /\ fQuestions = JNull /\ fSolar = SolarRaise /\ fResult = <<>>

DocIdle ==
    /\ dpc = "off" /\ dDoc = JNull /\ dResult = [raise |-> FALSE, text |-> <<>>]

HeaderInit ==
    /\ JsonIdle /\ ProfileIdle /\ FilterIdle /\ DocIdle /\ RunIdle
    /\ hpc = "output"
    /\ hOutput \in FinalOutputs
    /\ hCleaned = <<>>
    /\ hReport = <<>>
    /\ hAgain = <<>>

\* agent.py 403, inner call
CleanOutput ==
    /\ hpc = "output"
    /\ hCleaned' = _clean_terminal_output(hOutput)
    /\ hpc' = "cleaned"
    /\ UNCHANGED <<hOutput, hReport, hAgain>>
    /\ UNCHANGED <<jsonVars, profVars, filtVars, runVars, docVars>>

\* agent.py 403, outer call: the value run() returns
ReturnReport ==
    /\ hpc = "cleaned"
    /\ hReport' = _ensure_required_headers(hCleaned)
    /\ hpc' = "returned"
    /\ UNCHANGED <<hOutput, hCleaned, hAgain>>
    /\ UNCHANGED <<jsonVars, profVars, filtVars, runVars, docVars>>

\* _ensure_required_headers applied to the text as it is
EnsureText ==
    /\ hpc = "output"
    /\ hReport' = _ensure_required_headers(hOutput)
    /\ hpc' = "ensured"
    /\ UNCHANGED <<hOutput, hCleaned, hAgain>>
    /\ UNCHANGED <<jsonVars, profVars, filtVars, runVars, docVars>>

\* _ensure_required_headers applied to its own output
EnsureAgain ==
    /\ hpc \in {"returned", "ensured"}
    /\ hAgain' = _ensure_required_headers(hReport)
    /\ hpc' = "again"
    /\ UNCHANGED <<hOutput, hCleaned, hReport>>
    /\ UNCHANGED <<jsonVars, profVars, filtVars, runVars, docVars>>

JsonInit == HeaderIdle /\ ProfileIdle /\ FilterIdle /\ DocIdle /\ RunIdle /\ JsonInputs

ProfileInit == HeaderIdle /\ JsonIdle /\ FilterIdle /\ DocIdle /\ RunIdle /\ ProfileInputs

FilterInit == HeaderIdle /\ JsonIdle /\ ProfileIdle /\ DocIdle /\ RunIdle /\ FilterInputs

DocInit == HeaderIdle /\ JsonIdle /\ ProfileIdle /\ FilterIdle /\ RunIdle /\ DocInputs

HeaderNext == CleanOutput \/ ReturnReport \/ EnsureText \/ EnsureAgain

\* header completion of the final output
HeaderSpec == HeaderInit /\ [][HeaderNext]_vars

JsonNext == ParsePlanJson

\* _parse_plan_json on model outputs
JsonSpec == JsonInit /\ [][JsonNext]_vars

ProfileNext == AppendField

\* repeated _append_profile_field
ProfileSpec == ProfileInit /\ [][ProfileNext]_vars

FilterNext == FilterQuestions

\* _filter_questions_llm
FilterSpec == FilterInit /\ [][FilterNext]_vars

DocNext == PolicyText

\* _policy_text_from_parsed_doc on parsed documents
DocSpec == DocInit /\ [][DocNext]_vars

Init == HeaderIdle /\ JsonIdle /\ ProfileIdle /\ FilterIdle /\ DocIdle /\ RunInit

Next ==
    \/ CheckPath \/ SubmitParse \/ SubmitIE \/ StartTask \/ FinishParse \/ FinishIE
    \/ AwaitParse \/ AwaitIE \/ ExitPool \/ Normalize \/ StructureProfile \/ PlanPhase
    \/ FilterStep \/ SkipAnswer \/ MergeAnswer \/ EndQuestions \/ FinalReport

\* the run() pipeline
Spec == Init /\ [][Next]_vars

(***************************************************************************)
(* Properties.                                                             *)
(***************************************************************************)
HasAllHeaders(text) ==
    \A i \in 1..Len(REQUIRED_HEADERS) : Contains(text, REQUIRED_HEADERS[i])

\* C1: whatever text the final chat completion returns, the text run() returns
\* (header completion applied after bold-markup removal) holds each of the
\* five required headers.
C1_ReportHasAllHeaders == hpc = "returned" => HasAllHeaders(hReport)

\* C1 case: bold markup split a header in the model text, removal made it
\* whole, and other headers were still missing
C1_Witness ==
    /\ hpc = "returned"
    /\ ~Contains(hOutput, REQUIRED_HEADERS[1])
    /\ Contains(hCleaned, REQUIRED_HEADERS[1])
    /\ MissingHeaders(hCleaned) # <<>>

\* C2: header completion applied to its own output returns that output, for
\* every text and every subset of headers the text holds.
C2_EnsureIdempotent == hpc = "again" => hAgain = hReport

\* C2 case: the first application appended some but not all of the headers
C2_Witness ==
    /\ hpc = "again"
    /\ Len(MissingHeaders(hOutput)) \in 1..(Len(REQUIRED_HEADERS) - 1)
    /\ hReport # Strip(hOutput)

\* C3: once started, a run ends with an error only when the document is
\* missing or the document-parse call returns a non-success status.
C3_OnlyTwoFatal ==
    pc = "raised" =>
        \/ err.type = "FileNotFoundError"
        \/ err.type = "RuntimeError" /\ err.at = "call_document_parse"

\* no slice of the text, from a "{" to a "}", is a JSON object
NoObjectIn(text) ==
    \A i \in {n \in 1..Len(text) : text[n] = "{"} :
        \A j \in {n \in (i + 1)..Len(text) : text[n] = "}"} :
            ~json_loads(SubSeq(text, i, j)).ok

\* the first plan output is a text from which no JSON object can be recovered
UnparseablePlan ==
    /\ plan_outputs # <<>>
    /\ ~plan_outputs[1].raise
    /\ NoObjectIn(plan_outputs[1].text)

\* what an unparseable plan output leads to, up to the final chat completion
UnparseablePlanPath ==
    UnparseablePlan =>
        /\ plan_result = EmptyPlan
        /\ Len(plan_outputs) = 1
        /\ \A i \in 1..Len(steps) : steps[i] \notin {"ask", "filter_call", "extract_call"}
        /\ pc = "done" => HasAllHeaders(report)

\* C4: after a plan output from which no JSON object can be recovered, the
\* plan result is the all-empty record and the run goes on, with no question,
\* no filter call and no second plan, to return a report with all five headers.
C4_UnparseablePlanStillReports ==
    /\ UnparseablePlanPath
    /\ UnparseablePlan => pc # "raised"

\* C5: a failed information extraction (the call raises, or its response is
\* malformed) is an absent value: no prompt of the run holds the enrichment
\* section.
C5_FailedExtractionIsAbsent ==
    (tasks["ie"] = "done" /\ IeFailed(ie_response)) =>
        /\ future_ie.val = JNull
        /\ \A i \in 1..Len(plan_prompts) : plan_prompts[i].ie_section = <<>>
        /\ final_prompt.built => final_prompt.prompt.ie_section = <<>>

\* the filtering chat completion failed entirely: it raised, or no JSON array
\* can be recovered from its output
FilterCallFailed(solar) ==
    \/ solar.raise
    \/ LoadsOrSpan(solar.text, "[", "]").raised
    \/ ~IsList(LoadsOrSpan(solar.text, "[", "]").parsed)

\* an item the question loop can ask: a dict with a question or a field, or a
\* non-blank str
AskableItem(item) ==
    \/ IsDict(item) /\ Truthy(QuestionOrField(item))
    \/ IsStr(item) /\ Strip(item.v) # <<>>

\* the askable items in their order, each str as a question without field
AskableQuestions(items) ==
    [ i \in 1..Len(SelectSeq(items, AskableItem)) |->
        IF IsDict(SelectSeq(items, AskableItem)[i])
        THEN SelectSeq(items, AskableItem)[i]
        ELSE JObj(<< Pair(<<"field">>, JNull),
                     Pair(<<"question">>, JStr(Strip(SelectSeq(items, AskableItem)[i].v))) >>) ]

\* the filtering call was made and failed
FilterFailure ==
    /\ fpc = "filtered"
    /\ FilterCallsSolar(fQuestions)
    /\ FilterCallFailed(fSolar)

\* C6 as stated: when the filtering call fails, the list returned is the input list.
C6_FailureReturnsInput == FilterFailure => fResult = ListOf(fQuestions).val

\* C6: when the filtering call fails, the list returned is the input list's
\* askable items in their order, each plain string turned into a question
\* record without field; the other items are left out.
C6_FailureReturnsAskable == FilterFailure => fResult = AskableQuestions(ListOf(fQuestions).val)

\* C6 case: a failed call on a list that holds a plain string or an item
\* without question, so that the returned list is not the input list
C6_Witness ==
    /\ FilterFailure
    /\ fResult # <<>>
    /\ fResult # ListOf(fQuestions).val

\* text.split(sep) for a one-token separator
RECURSIVE SplitAt(_, _)
SplitAt(text, sep) ==
    IF Find(text, sep) = 0 THEN <<text>>
    ELSE <<SubSeq(text, 1, Find(text, sep) - 1)>>
         \o SplitAt(SubSeq(text, Find(text, sep) + 1, Len(text)), sep)

\* the names of the "name: value" fragments of a profile
FieldsOf(prof) ==
    { Strip(SubSeq(SplitAt(prof, "/")[i], 1, Find(SplitAt(prof, "/")[i], ":") - 1)) :
        i \in { n \in 1..Len(SplitAt(prof, "/")) : Find(SplitAt(prof, "/")[n], ":") # 0 } }

\* C7: appending a field the profile has leaves the profile as it is;
\* appending a field it does not have gives a longer profile that keeps the
\* text and the fields it had.
C7_FirstWriteWins ==
    ppc = "appended" =>
        IF pField \in FieldsOf(pPrev)
        THEN pProfile = pPrev
        ELSE /\ Len(pProfile) > Len(pPrev)
             /\ SubSeq(pProfile, 1, Len(pPrev)) = pPrev
             /\ FieldsOf(pPrev) \subseteq FieldsOf(pProfile)

\* C8: after a non-empty answer to a question with field identifier f, where
\* the profile held no "f:" before, the profile holds "f:", whatever the
\* extraction chat completion did.
C8_AnswerReachesProfile ==
    ( /\ last_answer.field # <<>>
      /\ ~Contains(last_answer.before, last_answer.field \o <<":">>) )
    => Contains(profile, last_answer.field \o <<":">>)

\* C9: a well-formed object in a fenced code block is returned as it is, also
\* behind a reasoning block; a text that holds no JSON object, and a text
\* that is a JSON array, give None.
C9_RecoversWrappedObject ==
    jpc = "parsed" =>
        /\ jKind \in {"fenced", "think_fenced"} => jResult = jObject
        /\ (jKind = "other" /\ NoObjectIn(jInput)) => jResult = JNull
        /\ (jKind = "other" /\ IsList(json_loads(jInput).val)) => jResult = JNull

\* C10: in every interleaving the run is past the pool block (at Normalize or
\* beyond, or ended by the parse error) only when both tasks have completed
\* and each has filled its own slot.
C10_IngestAwaitsBoth ==
    ( \/ pc \in {"normalize", "structure", "plan", "filter", "ask", "final", "done"}
      \/ pc = "raised" /\ err.type # "FileNotFoundError" )
    => /\ \A t \in TaskNames : tasks[t] = "done"
       /\ future_parse.set
       /\ future_ie.set

\* C10 case: the parse call failed and the run ended with its error, after the
\* information extraction had completed with a result
C10_Witness ==
    /\ pc = "raised"
    /\ err.at = "call_document_parse"
    /\ tasks["ie"] = "done"
    /\ future_ie.val # JNull

\* the pipeline steps taken so far, without the chat completions made inside
\* the filter and question steps
MainSteps == SelectSeq(steps, LAMBDA x : x \notin {"filter_call", "extract_call"})

\* the steps of a whole run that asks n questions, with or without the
\* second structuring and plan
StepsOfRun(n, replanned) ==
    <<"ingest", "normalize", "structure", "plan", "filter">>
    \o [i \in 1..n |-> "ask"]
    \o (IF replanned THEN <<"structure", "plan">> ELSE <<>>)
    \o <<"final_call">>

\* the number of questions put to the user so far
AsksSoFar == Len(SelectSeq(steps, LAMBDA x : x = "ask"))

\* C11: the steps taken are a prefix of Ingest, Normalize, Structure, Plan,
\* Filter, the questions asked, then the second structuring and plan exactly
\* when the filtered list is not empty, then the final call; a returned run
\* took them all; the plan step runs at most twice; and the final prompt
\* holds the plan result of the last plan call.
C11_StepsInOrder ==
    /\ Len(MainSteps) <= Len(StepsOfRun(AsksSoFar, questions # <<>>))
    /\ MainSteps = SubSeq(StepsOfRun(AsksSoFar, questions # <<>>), 1, Len(MainSteps))
    /\ pc = "done" => MainSteps = StepsOfRun(AsksSoFar, questions # <<>>)
    /\ pc = "ask" <=> (questions # <<>> /\ round = 1 /\ err = NoError)
    /\ pc \in {"final", "done"} => Len(plan_outputs) = (IF questions # <<>> THEN 2 ELSE 1)
    /\ Len(plan_outputs) <= 2
    /\ final_prompt.built =>
          /\ ~plan_outputs[Len(plan_outputs)].raise
          /\ final_prompt.prompt.agent_plan
                = json_dumps(_plan_phase(plan_outputs[Len(plan_outputs)]).val)

\* C11 case: a returned run whose question loop was entered and in which
\* every answer was empty, so that no answer was merged before the second plan
C11_Witness ==
    /\ pc = "done"
    /\ questions # <<>>
    /\ AsksSoFar > 0
    /\ \A i \in 1..Len(steps) : steps[i] # "extract_call"
    /\ Len(plan_outputs) = 2

\* the step put a question to the user and went on to the next one
QuestionStep == pc = "ask" /\ qidx' = qidx + 1

\* the step made the extraction chat completion
ExtractionCalled == steps' = steps \o <<"ask", "extract_call">>

\* C12: a question step that makes no extraction call (the answer was empty,
\* or the question had no text) leaves the profile and the answered fields as
\* they are; the extraction call is made only for a non-empty answer; the
\* answered fields change only in a question step, by the entry of the field
\* identifier the question carried and its non-empty answer.
C12_EmptyAnswerSkipped ==
    [][ /\ (QuestionStep /\ ~ExtractionCalled) =>
              /\ profile' = profile
              /\ answered_fields' = answered_fields
        /\ ExtractionCalled => (QuestionStep /\ last_answer'.answer # <<>>)
        /\ profile' # profile => ExtractionCalled
        /\ answered_fields' # answered_fields =>
              /\ ExtractionCalled
              /\ last_answer'.field # <<>>
              /\ last_answer'.field = PyStr(DictGet(questions[qidx], <<"field">>, JNull))
              /\ answered_fields' = DictSet(answered_fields, last_answer'.field,
                                            JStr(last_answer'.answer))
      ]_vars

\* C12 case: the first question carried a field identifier, its answer was
\* empty, and neither the profile nor the answered fields hold anything of it
C12_Witness ==
    /\ pc = "ask"
    /\ qidx = 2
    /\ steps[Len(steps)] = "ask"
    /\ Truthy(DictGet(questions[1], <<"field">>, JNull))
    /\ answered_fields = <<>>
    /\ profile = StartProfile

\* C13: _policy_text_from_parsed_doc returns for every parsed document, it
\* never raises, and what it returns is at most MAX_POLICY_TEXT_CHARS long.
C13_NormalizerTotalAndBounded ==
    dpc = "returned" =>
        /\ ~dResult.raise
        /\ Len(dResult.text) <= MAX_POLICY_TEXT_CHARS

\* C14: a document parse that got a non-success status has raised, and its
\* message is of the class of the status: the retry-later hint for every
\* server-side status 500..599, the credential hint for 401, and the
\* truncated response body for every other status.
C14_StatusHintClasses ==
    future_parse.raise =>
        /\ ~ResponseOk(future_parse.error.status)
        /\ future_parse.error.type = "RuntimeError"
        /\ future_parse.error.hint =
              (IF future_parse.error.status \in 500..599 THEN "server_error_retry_later"
               ELSE IF future_parse.error.status = 401 THEN "check_api_key_or_billing"
               ELSE "response_text")

====
